---------------------------- MODULE Spec2Model ----------------------------
(***************************************************************************)
(* A model of cmipcite's citation support (src/src/cmipcite/citations.py): *)
(* get_doi_and_version, get_citations and get_bibtex_citation.             *)
(*                                                                         *)
(* Strings the code transforms (identifiers, DOIs, BibTeX records) are     *)
(* sequences of one-character strings; str.replace and re.sub are computed *)
(* on them.  Strings the code only passes on (versions, aggregation        *)
(* levels, error kinds) are plain strings.                                 *)
(***************************************************************************)
EXTENDS Integers, Sequences, FiniteSets, TLC

VARIABLES
    links,          \* handle service: the dataset PIDs the tracking ID T1 is linked to
    pubdate,        \* handle service: publication date of each dataset PID
    ids_or_paths,   \* get_citations' argument
    multi_dataset_handling, \* the strategy argument: "None", "FIRST" or "LATEST"
    pc,             \* position in get_citations / get_doi_and_version
    idx,            \* position of the list comprehension over ids_or_paths
    id_in_value,    \* get_doi_and_version's local
    id_is_tracking_id, \* get_doi_and_version's local
    pid,            \* get_doi_and_version's local
    doi,            \* get_doi_and_version's local
    doi_versions,   \* get_citations' local: the pairs resolved so far
    todo,           \* the part of doi_versions_unique not yet iterated over
    res,            \* get_citations' local: the citations produced so far
    returned,       \* <<>> until get_citations returns, then <<the returned list>>
    error,          \* the exception that left the call, kind "none" while there is none
    lookups,        \* history: the handle service requests, <<idx, handle, key>>
    produced,       \* history: the arguments of the get_citation calls
    first,          \* two-call harness: the outcome of the first call
    fields,         \* BibTeX service: the fields of the record it holds for the DOI
    version,        \* get_bibtex_citation's argument
    citation,       \* <<>> until the citation producer returns, then <<the text>>
    exc,            \* citations.get: the exception that left get_citations
    out_path,       \* the command line's --out-path: "None" or a path
    process,        \* the command: its exit code, standard output, file and error output
    data,           \* metadata service: its answer for the DOI
    author_list_style \* get_text_citation's argument: "short" or "long"

vars == <<links, pubdate, ids_or_paths, multi_dataset_handling, pc, idx,
          id_in_value, id_is_tracking_id, pid, doi, doi_versions, todo, res,
          returned, error, lookups, produced, first, fields, version, citation,
          exc, out_path, process, data, author_list_style>>

\* the state of what wraps or follows get_citations
wrappers == <<exc, out_path, process, data, author_list_style>>

(***************************************************************************)
(* Bounds                                                                  *)
(***************************************************************************)
\* the longest ids_or_paths list
MaxIds == 2
\* the most fields a BibTeX record has
MaxFields == 2

(***************************************************************************)
(* Strings                                                                 *)
(***************************************************************************)
RECURSIVE ReplaceFrom(_, _, _, _)
ReplaceFrom(s, old, new, i) ==
    IF i > Len(s) THEN <<>>
    ELSE IF i + Len(old) - 1 <= Len(s) /\ SubSeq(s, i, i + Len(old) - 1) = old
         THEN new \o ReplaceFrom(s, old, new, i + Len(old))
         ELSE <<s[i]>> \o ReplaceFrom(s, old, new, i + 1)

\* str.replace(old, new) for a non-empty old: every non-overlapping
\* occurrence, found from the left
StrReplace(s, old, new) == ReplaceFrom(s, old, new, 1)

Hdl == <<"h", "d", "l", ":">>
DoiPrefix == <<"d", "o", "i", ":">>

(***************************************************************************)
(* The handle service                                                      *)
(***************************************************************************)
T1 == <<"t", "1">>
P1 == <<"p", "1">>
P2 == <<"p", "2">>
P3 == <<"p", "3">>
U1 == <<"u", "1">>
U2 == <<"u", "2">>
M1 == <<"m", "1">>
F1 == <<"f", ".", "n", "c">>

\* the registered dataset PIDs, in the order of their strings
PidList == <<P1, P2, P3>>
Pids == {PidList[i] : i \in 1..Len(PidList)}
Dates == {20190903, 20210205}
Strategies == {"None", "FIRST", "LATEST"}

\* the handles the service knows; M1 is not registered
Registered == {T1, U1, U2} \cup Pids

\* the values a registered handle's record holds
HandleRecord(h) ==
    CASE h = T1 -> [AGGREGATION_LEVEL |-> "FILE"]
      [] h = U1 -> [AGGREGATION_LEVEL |-> "UNKNOWN"]
      [] h = U2 -> [AGGREGATION_LEVEL |-> "dataset"]
      [] h = P1 -> [AGGREGATION_LEVEL |-> "DATASET",
                    IS_PART_OF |-> DoiPrefix \o <<"1", "0", ".", "a">>,
                    VERSION_NUMBER |-> "20190903"]
      [] h = P2 -> [AGGREGATION_LEVEL |-> "DATASET",
                    IS_PART_OF |-> DoiPrefix \o <<"1", "0", ".", "a">>,
                    VERSION_NUMBER |-> "20210205"]
      [] h = P3 -> [AGGREGATION_LEVEL |-> "DATASET",
                    IS_PART_OF |-> <<"1", "0", ".", "b">>,
                    VERSION_NUMBER |-> "20190903"]

\* client.get_value_from_handle(h, key) answers iff the handle is registered
\* and its record holds the key
HandleAnswers(h, key) == h \in Registered /\ key \in DOMAIN HandleRecord(h)
get_value_from_handle(h, key) == HandleRecord(h)[key]

\* Path(in_value).exists()
PathExists(in_value) == in_value = F1

InValues == {T1, Hdl \o T1, P1, Hdl \o P1, P2, P3, U1, U2, M1, F1}

NoError == [kind |-> "none", detail |-> <<>>]
Raise(kind, detail) == [kind |-> kind, detail |-> detail]


(***************************************************************************)
(* cmipcite.tracking_id.get_dataset_pid                                    *)
(***************************************************************************)
Rank(p) == CHOOSE i \in 1..Len(PidList) : PidList[i] = p

\* the dataset version records linked to a tracking ID
Candidates(tracking_id) ==
    IF tracking_id = T1 THEN {[pid |-> p, date |-> pubdate[p]] : p \in links}
    ELSE {}

\* the total order on candidates: publication date, then PID string
Before(a, b) ==
    a.date < b.date \/ (a.date = b.date /\ Rank(a.pid) < Rank(b.pid))

RECURSIVE SortDescending(_)
SortDescending(c) ==
    IF c = {} THEN <<>>
    ELSE LET m == CHOOSE x \in c : \A y \in c \ {x} : Before(y, x)
         IN <<m>> \o SortDescending(c \ {m})

\* a mutation of SelectByStrategy: candidates sharing the extreme date are
\* left in whatever order they arrive in
SelectAnyTied(c, strategy) ==
    IF strategy = "LATEST"
    THEN {x.pid : x \in {x \in c : \A y \in c : y.date <= x.date}}
    ELSE {x.pid : x \in {x \in c : \A y \in c : x.date <= y.date}}

\* the PIDs a strategy may select among more than one candidate: one PID
SelectByStrategy(c, strategy) ==
    LET sorted == SortDescending(c)
    IN IF strategy = "LATEST" THEN {sorted[1].pid}
       ELSE {sorted[Len(sorted)].pid}

\* "{publication_date} (PID: {pid})" for every candidate, most recent first
Listing(c) ==
    LET sorted == SortDescending(c)
    IN [i \in 1..Len(sorted) |->
            <<sorted[i].date, " (PID: ", sorted[i].pid, ")">>]

\* the outcome of get_dataset_pid: the PIDs it may return, or the message of
\* its MultipleDatasetMemberError
get_dataset_pid(tracking_id, strategy) ==
    LET c == Candidates(tracking_id)
    IN IF Cardinality(c) = 1
       THEN [ok |-> TRUE, pids |-> {x.pid : x \in c}, msg |-> <<>>]
       ELSE IF strategy = "None"
       THEN [ok |-> FALSE, pids |-> {}, msg |-> <<tracking_id, Listing(c)>>]
       ELSE [ok |-> TRUE, pids |-> SelectByStrategy(c, strategy), msg |-> <<>>]

(***************************************************************************)
(* get_doi_and_version                                                     *)
(***************************************************************************)
in_value == ids_or_paths[idx]

NoLocals ==
    /\ id_in_value' = <<>>
    /\ id_is_tracking_id' = FALSE
    /\ pid' = <<>>
    /\ doi' = <<>>

\* a mutation of ForwardedStrategy: an unset strategy defaults to LATEST
ForwardedStrategyDefaulted ==
    IF multi_dataset_handling = "None" THEN "LATEST" ELSE multi_dataset_handling

\* a mutation of ForwardedStrategy: the argument is not handed on
ForwardedStrategyDropped == "None"

\* line 196: the strategy get_doi_and_version hands to get_dataset_pid
ForwardedStrategy == multi_dataset_handling

\* lines 171-180: the path check and the prefix strip
Enter ==
    /\ pc = "call"
    /\ idx <= Len(ids_or_paths)
    /\ IF PathExists(in_value)
       THEN /\ pc' = "raised"
            /\ error' = Raise("NotImplementedError", <<>>)
            /\ UNCHANGED id_in_value
       ELSE /\ pc' = "agg"
            /\ id_in_value' = StrReplace(in_value, Hdl, <<>>)
            /\ UNCHANGED error
    /\ UNCHANGED <<wrappers, links, pubdate, ids_or_paths, multi_dataset_handling, idx,
                   id_is_tracking_id, pid, doi, doi_versions, todo, res,
                   returned, lookups, produced, first, fields, version, citation>>

\* a mutation of Classify: an unknown level is treated as a dataset
ClassifyDefaultDataset(agg_lev) ==
    IF agg_lev = "FILE" THEN "file" ELSE "dataset"

\* lines 183-191: how an AGGREGATION_LEVEL value is classified
Classify(agg_lev) ==
    IF agg_lev = "DATASET" THEN "dataset"
    ELSE IF agg_lev = "FILE" THEN "file"
    ELSE "unknown"

\* lines 182-191: the AGGREGATION_LEVEL lookup and the classification
LookupAggregationLevel ==
    /\ pc = "agg"
    /\ lookups' = Append(lookups, <<idx, id_in_value, "AGGREGATION_LEVEL">>)
    /\ IF ~HandleAnswers(id_in_value, "AGGREGATION_LEVEL")
       THEN /\ pc' = "raised"
            /\ error' = Raise("HandleNotFoundException", <<id_in_value>>)
            /\ UNCHANGED id_is_tracking_id
       ELSE LET agg_lev == get_value_from_handle(id_in_value, "AGGREGATION_LEVEL")
            IN IF Classify(agg_lev) = "unknown"
               THEN /\ pc' = "raised"
                    /\ error' = Raise("NotImplementedError",
                                      <<"The id ", id_in_value,
                                        " has an unknown AGGREGATION_LEVEL: ",
                                        agg_lev>>)
                    /\ UNCHANGED id_is_tracking_id
               ELSE /\ pc' = "pid"
                    /\ id_is_tracking_id' = (Classify(agg_lev) = "file")
                    /\ UNCHANGED error
    /\ UNCHANGED <<wrappers, links, pubdate, ids_or_paths, multi_dataset_handling, idx,
                   id_in_value, pid, doi, doi_versions, todo, res, returned,
                   produced, first, fields, version, citation>>

\* lines 193-201: the dataset PID, through get_dataset_pid for a tracking ID
SelectDatasetPid ==
    /\ pc = "pid"
    /\ IF id_is_tracking_id
       THEN LET r == get_dataset_pid(id_in_value, ForwardedStrategy)
            IN /\ lookups' = Append(lookups, <<idx, id_in_value, "get_dataset_pid">>)
               /\ IF r.ok
                  THEN /\ \E p \in r.pids : pid' = p
                       /\ pc' = "doi"
                       /\ UNCHANGED error
                  ELSE /\ pc' = "raised"
                       /\ error' = Raise("MultipleDatasetMemberError", r.msg)
                       /\ UNCHANGED pid
       ELSE /\ pid' = id_in_value
            /\ pc' = "doi"
            /\ UNCHANGED <<error, lookups>>
    /\ UNCHANGED <<wrappers, links, pubdate, ids_or_paths, multi_dataset_handling, idx,
                   id_in_value, id_is_tracking_id, doi, doi_versions, todo, res,
                   returned, produced, first, fields, version, citation>>

\* a mutation of LookupHandle: the input identifier instead of the dataset PID
LookupHandleInput == id_in_value

\* lines 203 and 205: the handle whose IS_PART_OF and VERSION_NUMBER are looked up
LookupHandle == pid

\* a mutation of StripDoi: the prefix is left in place
StripDoiKept(doi_raw) == doi_raw

\* line 204: doi_raw.replace("doi:", "")
StripDoi(doi_raw) == StrReplace(doi_raw, DoiPrefix, <<>>)

\* lines 203-204: the IS_PART_OF lookup and the prefix strip
LookupDoi ==
    /\ pc = "doi"
    /\ lookups' = Append(lookups, <<idx, LookupHandle, "IS_PART_OF">>)
    /\ IF ~HandleAnswers(LookupHandle, "IS_PART_OF")
       THEN /\ pc' = "raised"
            /\ error' = Raise("HandleNotFoundException", <<LookupHandle>>)
            /\ UNCHANGED doi
       ELSE /\ pc' = "version"
            /\ doi' = StripDoi(get_value_from_handle(LookupHandle, "IS_PART_OF"))
            /\ UNCHANGED error
    /\ UNCHANGED <<wrappers, links, pubdate, ids_or_paths, multi_dataset_handling, idx,
                   id_in_value, id_is_tracking_id, pid, doi_versions, todo, res,
                   returned, produced, first, fields, version, citation>>

\* lines 205-207, and the list comprehension of lines 273-278 taking the pair
LookupVersion ==
    /\ pc = "version"
    /\ lookups' = Append(lookups, <<idx, LookupHandle, "VERSION_NUMBER">>)
    /\ IF ~HandleAnswers(LookupHandle, "VERSION_NUMBER")
       THEN /\ pc' = "raised"
            /\ error' = Raise("HandleNotFoundException", <<LookupHandle>>)
            /\ UNCHANGED <<idx, id_in_value, id_is_tracking_id, pid, doi,
                           doi_versions>>
       ELSE /\ pc' = "call"
            /\ doi_versions' =
                 Append(doi_versions,
                        <<doi, get_value_from_handle(LookupHandle, "VERSION_NUMBER")>>)
            /\ idx' = idx + 1
            /\ NoLocals
            /\ UNCHANGED error
    /\ UNCHANGED <<wrappers, links, pubdate, ids_or_paths, multi_dataset_handling, todo,
                   res, returned, produced, first, fields, version, citation>>

(***************************************************************************)
(* get_citations                                                           *)
(***************************************************************************)
Range(f) == {f[i] : i \in DOMAIN f}

\* the citation producer handed to get_citations
get_citation(dv) == <<"citation of ", dv[1], " version ", dv[2]>>

\* a mutation of Unique: pairs are told apart by their DOI alone
UniqueByDoi(pairs) ==
    {pairs[i] : i \in {i \in DOMAIN pairs :
                          \A j \in 1..(i - 1) : pairs[j][1] # pairs[i][1]}}

\* line 280: set(doi_versions)
Unique(pairs) == Range(pairs)

\* a mutation of Resolved: an identifier that fails to resolve ends the
\* comprehension with the pairs resolved before it
ResolvedOrSkipped ==
    \/ pc = "call" /\ idx > Len(ids_or_paths)
    \/ pc = "raised" /\ idx <= Len(ids_or_paths)

\* lines 273-278: whether the list comprehension has ended
Resolved == pc = "call" /\ idx > Len(ids_or_paths)

\* line 280, once the list comprehension of lines 273-278 has ended
Deduplicate ==
    /\ Resolved
    /\ todo' = Unique(doi_versions)
    /\ pc' = "cite"
    /\ UNCHANGED <<wrappers, links, pubdate, ids_or_paths, multi_dataset_handling, idx,
                   id_in_value, id_is_tracking_id, pid, doi, doi_versions, res,
                   returned, error, lookups, produced, first, fields, version,
                   citation>>

\* line 282: one iteration over doi_versions_unique, in the set's own order
ProduceCitation ==
    /\ pc = "cite"
    /\ \E dv \in todo :
          /\ produced' = Append(produced, dv)
          /\ res' = Append(res, get_citation(dv))
          /\ todo' = todo \ {dv}
    /\ UNCHANGED <<wrappers, links, pubdate, ids_or_paths, multi_dataset_handling, pc,
                   idx, id_in_value, id_is_tracking_id, pid, doi, doi_versions,
                   returned, error, lookups, first, fields, version, citation>>

\* line 282: the producer raises (the metadata service answers with an error)
ProduceCitationRaises ==
    /\ pc = "cite"
    /\ \E dv \in todo :
          /\ produced' = Append(produced, dv)
          /\ error' = Raise("HTTPStatusError", <<dv[1]>>)
    /\ pc' = "raised"
    /\ UNCHANGED <<wrappers, links, pubdate, ids_or_paths, multi_dataset_handling, idx,
                   id_in_value, id_is_tracking_id, pid, doi, doi_versions, todo,
                   res, returned, lookups, first, fields, version, citation>>

\* line 284
Return ==
    /\ pc = "cite"
    /\ todo = {}
    /\ returned' = <<res>>
    /\ pc' = "done"
    /\ UNCHANGED <<wrappers, links, pubdate, ids_or_paths, multi_dataset_handling, idx,
                   id_in_value, id_is_tracking_id, pid, doi, doi_versions, todo,
                   res, error, lookups, produced, first, fields, version, citation>>

(***************************************************************************)
(* The specification of get_citations                                      *)
(***************************************************************************)
Lists(n) == UNION {[1..k -> InValues] : k \in 0..n}

InitLocals ==
    /\ idx = 1
    /\ id_in_value = <<>>
    /\ id_is_tracking_id = FALSE
    /\ pid = <<>>
    /\ doi = <<>>
    /\ doi_versions = <<>>
    /\ todo = {}
    /\ res = <<>>
    /\ returned = <<>>
    /\ error = NoError
    /\ lookups = <<>>
    /\ produced = <<>>
    /\ first = NoError

NoBib ==
    /\ fields = <<>>
    /\ version = <<>>
    /\ citation = <<>>

NoProcess == [exit_code |-> <<>>, stdout |-> <<>>, file |-> <<>>, stderr |-> <<>>]
NoData == [status |-> "none"]

NoWrappers ==
    /\ exc = NoError
    /\ out_path = "None"
    /\ process = NoProcess
    /\ data = NoData
    /\ author_list_style = "long"

Init ==
    /\ links \in (SUBSET Pids) \ {{}}
    /\ pubdate \in [Pids -> Dates]
    /\ ids_or_paths \in Lists(MaxIds)
    /\ multi_dataset_handling \in Strategies
    /\ pc = "call"
    /\ InitLocals
    /\ NoBib
    /\ NoWrappers

Next ==
    \/ Enter
    \/ LookupAggregationLevel
    \/ SelectDatasetPid
    \/ LookupDoi
    \/ LookupVersion
    \/ Deduplicate
    \/ ProduceCitation
    \/ ProduceCitationRaises
    \/ Return

Spec == Init /\ [][Next]_vars

(***************************************************************************)
(* The specification of two calls of get_doi_and_version with the same     *)
(* arguments against the same handle service                               *)
(***************************************************************************)
InitTwice ==
    /\ links \in (SUBSET Pids) \ {{}}
    /\ pubdate \in [Pids -> Dates]
    /\ \E v \in InValues : ids_or_paths = <<v, v>>
    /\ multi_dataset_handling \in Strategies
    /\ pc = "call"
    /\ InitLocals
    /\ NoBib
    /\ NoWrappers

\* the caller keeps the first call's exception and calls again
CallAgain ==
    /\ pc = "raised"
    /\ idx = 1
    /\ first' = error
    /\ error' = NoError
    /\ idx' = 2
    /\ pc' = "call"
    /\ NoLocals
    /\ UNCHANGED <<wrappers, links, pubdate, ids_or_paths, multi_dataset_handling,
                   doi_versions, todo, res, returned, lookups, produced, fields,
                   version, citation>>

NextTwice ==
    \/ Enter
    \/ LookupAggregationLevel
    \/ SelectDatasetPid
    \/ LookupDoi
    \/ LookupVersion
    \/ CallAgain

TwiceSpec == InitTwice /\ [][NextTwice]_vars

(***************************************************************************)
(* get_bibtex_citation                                                     *)
(***************************************************************************)
Simple == <<"A", "b">>
Nested == <<"{", "A", "}", " ", "b">>
MultiLine == <<"A", "\n", "b">>
FieldNames == {<<"t", "i", "t", "l", "e">>,
               <<"b", "o", "o", "k", "t", "i", "t", "l", "e">>,
               <<"y", "e", "a", "r">>}
FieldValues == {Simple, Nested, MultiLine}
Versions == {<<"1">>, <<"1", ".", "0">>}

RECURSIVE RenderFields(_)
RenderFields(fs) ==
    IF fs = <<>> THEN <<>>
    ELSE <<" ">> \o Head(fs).name \o <<" ", "=", " ", "{">> \o Head(fs).value
            \o <<"}", ",", "\n">> \o RenderFields(Tail(fs))

\* the raw record the BibTeX service answers with
Render(fs) == <<"@", "m", "i", "s", "c", "{", "k", ",", "\n">> \o RenderFields(fs) \o <<"}">>

\* the literal the pattern r"title = {(.*?)}" starts with
TitleOpen == <<"t", "i", "t", "l", "e", " ", "=", " ", "{">>

\* ". Version {version}."
VersionText(v) == <<".", " ", "V", "e", "r", "s", "i", "o", "n", " ">> \o v \o <<".">>

\* where a match of the pattern starting at i ends, 0 when there is none: the
\* literal, then the first "}" that no line break precedes ("." matches any
\* character but a line break; "*?" takes as few as it can)
MatchEnd(s, i) ==
    LET from == i + Len(TitleOpen)
        ends == {j \in from..Len(s) :
                    /\ s[j] = "}"
                    /\ \A k \in from..(j - 1) : s[k] # "\n"}
    IN IF from - 1 <= Len(s) /\ SubSeq(s, i, from - 1) = TitleOpen /\ ends # {}
       THEN CHOOSE j \in ends : \A k \in ends : j <= k
       ELSE 0

RECURSIVE SubFrom(_, _, _)
SubFrom(s, v, i) ==
    IF i > Len(s) THEN <<>>
    ELSE LET j == MatchEnd(s, i)
         IN IF j # 0
            THEN TitleOpen \o SubSeq(s, i + Len(TitleOpen), j - 1) \o VersionText(v)
                    \o <<"}">> \o SubFrom(s, v, j + 1)
            ELSE <<s[i]>> \o SubFrom(s, v, i + 1)

\* lines 114-118: re.sub over the whole record, every match replaced
AddVersionToTitle(s, v) == SubFrom(s, v, 1)

\* lines 107-120, the service answering with the record
GetBibtexCitation ==
    /\ pc = "bibtex"
    /\ citation' = <<AddVersionToTitle(Render(fields), version)>>
    /\ pc' = "bibdone"
    /\ UNCHANGED <<wrappers, links, pubdate, ids_or_paths, multi_dataset_handling, idx,
                   id_in_value, id_is_tracking_id, pid, doi, doi_versions, todo,
                   res, returned, error, lookups, produced, first, fields, version>>

\* lines 109-111: raise_for_status raises on an error status
GetBibtexCitationRaises ==
    /\ pc = "bibtex"
    /\ error' = Raise("HTTPStatusError", <<>>)
    /\ pc' = "raised"
    /\ UNCHANGED <<wrappers, links, pubdate, ids_or_paths, multi_dataset_handling, idx,
                   id_in_value, id_is_tracking_id, pid, doi, doi_versions, todo,
                   res, returned, lookups, produced, first, fields, version,
                   citation>>

Records(n) ==
    UNION {[1..k -> [name : FieldNames, value : FieldValues]] : k \in 1..n}

InitBib ==
    /\ links = Pids
    /\ pubdate = [p \in Pids |-> 20190903]
    /\ ids_or_paths = <<>>
    /\ multi_dataset_handling = "None"
    /\ pc = "bibtex"
    /\ InitLocals
    /\ fields \in Records(MaxFields)
    /\ version \in Versions
    /\ citation = <<>>
    /\ NoWrappers

NextBib ==
    \/ GetBibtexCitation
    \/ GetBibtexCitationRaises

BibSpec == InitBib /\ [][NextBib]_vars

(***************************************************************************)
(* citations.get                                                           *)
(*                                                                         *)
(* translate_get_args_to_get_citations_kwargs picks the citation producer  *)
(* from the format and builds the client; get_citation stands for either   *)
(* producer.                                                               *)
(***************************************************************************)
\* the backquote character, which no string of this module can hold
Backquote == "(backquote)"

\* lines 400-411: the message of the ValueError, literal by literal
Guidance ==
    <<"One of your input values is a member of more than one dataset. ",
      "You can resolve this by passing a value for the ",
      Backquote, "multi_dataset_handling", Backquote, " argument. ",
      "In most cases, adding ",
      Backquote, "from cmipcite.tracking_id import MultiDatasetHandlingStrategy",
      Backquote, " ",
      "and then using ",
      Backquote, "multi_dataset_handling=MultiDatasetHandlingStrategy.LATEST",
      Backquote, " ",
      "is what you will want ",
      "(this will give you the reference to the last published dataset ",
      "that includes your ID).">>

\* a mutation of Caught: the except clause takes every exception
CaughtAny(kind) == TRUE

\* line 399: the exceptions the except clause takes
Caught(kind) == kind = "MultipleDatasetMemberError"

\* lines 399-412: a caught exception is raised again as a ValueError
GetCatches ==
    /\ pc = "raised"
    /\ Caught(error.kind)
    /\ exc' = error
    /\ error' = Raise("ValueError", Guidance)
    /\ pc' = "get_raised"
    /\ UNCHANGED <<links, pubdate, ids_or_paths, multi_dataset_handling, idx,
                   id_in_value, id_is_tracking_id, pid, doi, doi_versions, todo,
                   res, returned, lookups, produced, first, fields, version,
                   citation, out_path, process, data, author_list_style>>

\* lines 393-398: any other exception leaves get as it is
GetPropagates ==
    /\ pc = "raised"
    /\ ~Caught(error.kind)
    /\ exc' = error
    /\ pc' = "get_raised"
    /\ UNCHANGED <<links, pubdate, ids_or_paths, multi_dataset_handling, idx,
                   id_in_value, id_is_tracking_id, pid, doi, doi_versions, todo,
                   res, returned, error, lookups, produced, first, fields,
                   version, citation, out_path, process, data, author_list_style>>

\* line 414
GetReturns ==
    /\ pc = "done"
    /\ pc' = "get_done"
    /\ UNCHANGED <<links, pubdate, ids_or_paths, multi_dataset_handling, idx,
                   id_in_value, id_is_tracking_id, pid, doi, doi_versions, todo,
                   res, returned, error, lookups, produced, first, fields,
                   version, citation, exc, out_path, process, data,
                   author_list_style>>

NextGet ==
    \/ Next
    \/ GetCatches
    \/ GetPropagates
    \/ GetReturns

GetSpec == Init /\ [][NextGet]_vars

(***************************************************************************)
(* The command line's get (cli/__init__.py)                                *)
(*                                                                         *)
(* The command picks the citation producer from --format, for which        *)
(* get_citation stands, and calls get_citations itself, not citations.get. *)
(***************************************************************************)
OutPaths == {"None", "out.txt"}

\* "\n\n".join(citations)
RECURSIVE Join(_)
Join(citations) ==
    IF citations = <<>> THEN <<>>
    ELSE IF Len(citations) = 1 THEN citations[1]
    ELSE citations[1] \o <<"\n\n">> \o Join(Tail(citations))

\* lines 134-140: the text is printed, or written to --out-path
CliWrites ==
    /\ pc = "done"
    /\ LET text == Join(returned[1])
       IN process' = IF out_path = "None"
                     THEN [process EXCEPT !.stdout = <<text \o <<"\n">> >>,
                                          !.exit_code = <<0>>]
                     ELSE [process EXCEPT !.file = <<text>>,
                                          !.exit_code = <<0>>]
    /\ pc' = "exited"
    /\ UNCHANGED <<links, pubdate, ids_or_paths, multi_dataset_handling, idx,
                   id_in_value, id_is_tracking_id, pid, doi, doi_versions, todo,
                   res, returned, error, lookups, produced, first, fields,
                   version, citation, exc, out_path, data, author_list_style>>

\* lines 127-132: nothing catches what get_citations raises, so the exception
\* ends the command: its traceback and message on the error output, exit code 1
CliFails ==
    /\ pc = "raised"
    /\ process' = [process EXCEPT !.stderr = <<error>>, !.exit_code = <<1>>]
    /\ pc' = "exited"
    /\ UNCHANGED <<links, pubdate, ids_or_paths, multi_dataset_handling, idx,
                   id_in_value, id_is_tracking_id, pid, doi, doi_versions, todo,
                   res, returned, error, lookups, produced, first, fields,
                   version, citation, exc, out_path, data, author_list_style>>

InitCli ==
    /\ links \in (SUBSET Pids) \ {{}}
    /\ pubdate \in [Pids -> Dates]
    /\ ids_or_paths \in Lists(MaxIds)
    /\ multi_dataset_handling \in Strategies
    /\ pc = "call"
    /\ InitLocals
    /\ NoBib
    /\ exc = NoError
    /\ out_path \in OutPaths
    /\ process = NoProcess
    /\ data = NoData
    /\ author_list_style = "long"

NextCli ==
    \/ Next
    \/ CliWrites
    \/ CliFails

CliSpec == InitCli /\ [][NextCli]_vars

(***************************************************************************)
(* get_text_citation (citations.py, lines 44-87)                           *)
(*                                                                         *)
(* data is the answer of the DOI metadata service: its status and the      *)
(* attributes of the JSON body, a function on the keys that are present.   *)
(* The citation is the sequence of the pieces the f-string puts together.  *)
(***************************************************************************)
MaxCreators == 2

Jane == [name |-> "Doe, Jane", familyName |-> "Doe"]
Al == [name |-> "Lee, Al", familyName |-> "Lee"]
\* an organisation has a name only, a broken entry a family name only
Nasa == [name |-> "NASA"]
Nameless == [familyName |-> "Roe"]
Creators == {Jane, Al, Nasa, Nameless}
CreatorLists(n) == UNION {[1..k -> Creators] : k \in 0..n}

ExampleTitle == [title |-> "Example Dataset"]
OtherTitle == [title |-> "Other"]
TitleLists == {<<>>, <<ExampleTitle>>, <<ExampleTitle, OtherTitle>>,
               <<OtherTitle, ExampleTitle>>}

AttributeKeys == {"creators", "publicationYear", "titles", "publisher"}
AuthorListStyles == {"short", "long"}
TextDois == {<<"1", "0", ".", "5", "/", "x">>}

Attributes(creators, titles, absent) ==
    [k \in AttributeKeys \ absent |->
        CASE k = "creators" -> creators
          [] k = "publicationYear" -> "2019"
          [] k = "titles" -> titles
          [] OTHER -> "ESGF"]

Value(v) == [ok |-> TRUE, value |-> v, error |-> NoError]
Failed(e) == [ok |-> FALSE, value |-> <<>>, error |-> e]
KeyError(k) == Raise("KeyError", <<k>>)
IndexError == Raise("IndexError", <<>>)

\* "; ".join([c["name"] for c in data["creators"]])
RECURSIVE JoinNames(_)
JoinNames(creators) ==
    IF creators = <<>> THEN <<>>
    ELSE IF Len(creators) = 1 THEN <<creators[1].name>>
    ELSE <<creators[1].name, "; ">> \o JoinNames(Tail(creators))

\* the short style without its single-creator branch
AuthorListAlwaysEtAl(attributes, style) ==
    IF "creators" \notin DOMAIN attributes THEN Failed(KeyError("creators"))
    ELSE LET creators == attributes["creators"]
         IN IF style = "short"
            THEN IF creators = <<>> THEN Failed(IndexError)
                 ELSE IF "familyName" \in DOMAIN creators[1]
                      THEN Value(<<creators[1].familyName, " et al.">>)
                      ELSE Failed(KeyError("familyName"))
            ELSE IF \E i \in DOMAIN creators : "name" \notin DOMAIN creators[i]
                 THEN Failed(KeyError("name"))
                 ELSE Value(JoinNames(creators))

\* lines 69-77
AuthorList(attributes, style) ==
    IF "creators" \notin DOMAIN attributes THEN Failed(KeyError("creators"))
    ELSE LET creators == attributes["creators"]
         IN IF style = "short"
            THEN IF Len(creators) = 1
                 THEN IF "name" \in DOMAIN creators[1]
                      THEN Value(<<creators[1].name>>)
                      ELSE Failed(KeyError("name"))
                 ELSE IF creators = <<>> THEN Failed(IndexError)
                 ELSE IF "familyName" \in DOMAIN creators[1]
                      THEN Value(<<creators[1].familyName, " et al.">>)
                      ELSE Failed(KeyError("familyName"))
            ELSE IF \E i \in DOMAIN creators : "name" \notin DOMAIN creators[i]
                 THEN Failed(KeyError("name"))
                 ELSE Value(JoinNames(creators))

\* lines 66-87
get_text_citation(answer, d, v, style) ==
    IF answer.status # "ok" THEN Failed(Raise("HTTPStatusError", <<>>))
    ELSE LET attributes == answer.attributes
             creators == AuthorList(attributes, style)
         IN IF ~creators.ok THEN creators
            ELSE IF "publicationYear" \notin DOMAIN attributes
                 THEN Failed(KeyError("publicationYear"))
            ELSE IF "titles" \notin DOMAIN attributes
                 THEN Failed(KeyError("titles"))
            ELSE IF attributes["titles"] = <<>> THEN Failed(IndexError)
            ELSE IF "publisher" \notin DOMAIN attributes
                 THEN Failed(KeyError("publisher"))
            ELSE Value(creators.value
                       \o <<" (", attributes["publicationYear"], "): ",
                            attributes["titles"][1].title, ". ", "Version ">>
                       \o v
                       \o <<". ", attributes["publisher"], ". ",
                            "https://doi.org/">>
                       \o d
                       \o <<".">>)

GetTextCitation ==
    /\ pc = "text"
    /\ LET r == get_text_citation(data, doi, version, author_list_style)
       IN /\ r.ok
          /\ citation' = <<r.value>>
    /\ pc' = "textdone"
    /\ UNCHANGED <<wrappers, links, pubdate, ids_or_paths, multi_dataset_handling, idx,
                   id_in_value, id_is_tracking_id, pid, doi, doi_versions, todo,
                   res, returned, error, lookups, produced, first, fields, version>>

GetTextCitationRaises ==
    /\ pc = "text"
    /\ LET r == get_text_citation(data, doi, version, author_list_style)
       IN /\ ~r.ok
          /\ error' = r.error
    /\ pc' = "raised"
    /\ UNCHANGED <<wrappers, links, pubdate, ids_or_paths, multi_dataset_handling, idx,
                   id_in_value, id_is_tracking_id, pid, doi, doi_versions, todo,
                   res, returned, lookups, produced, first, fields, version,
                   citation>>

InitText ==
    /\ links = Pids
    /\ pubdate = [p \in Pids |-> 20190903]
    /\ ids_or_paths = <<>>
    /\ multi_dataset_handling = "None"
    /\ pc = "text"
    /\ idx = 1
    /\ id_in_value = <<>>
    /\ id_is_tracking_id = FALSE
    /\ pid = <<>>
    /\ doi \in TextDois
    /\ doi_versions = <<>>
    /\ todo = {}
    /\ res = <<>>
    /\ returned = <<>>
    /\ error = NoError
    /\ lookups = <<>>
    /\ produced = <<>>
    /\ first = NoError
    /\ fields = <<>>
    /\ version \in Versions
    /\ citation = <<>>
    /\ exc = NoError
    /\ out_path = "None"
    /\ process = NoProcess
    /\ \E status \in {"ok", "error"}, creators \in CreatorLists(MaxCreators),
          titles \in TitleLists, absent \in SUBSET AttributeKeys :
            /\ Cardinality(absent) <= 1
            /\ data = [status |-> status,
                       attributes |-> Attributes(creators, titles, absent)]
    /\ author_list_style \in AuthorListStyles

NextText ==
    \/ GetTextCitation
    \/ GetTextCitationRaises

TextSpec == InitText /\ [][NextText]_vars

(***************************************************************************)
(* What the claims speak of                                                *)
(***************************************************************************)
\* the handle an input value names, with or without its "hdl:" prefix
HandleOf(v) ==
    IF \E h \in Registered \cup {M1} : v = h \/ v = Hdl \o h
    THEN CHOOSE h \in Registered \cup {M1} : v = h \/ v = Hdl \o h
    ELSE <<>>

\* s without a leading prefix
WithoutPrefix(s, prefix) ==
    IF Len(s) >= Len(prefix) /\ SubSeq(s, 1, Len(prefix)) = prefix
    THEN SubSeq(s, Len(prefix) + 1, Len(s))
    ELSE s

\* the (DOI, version) pair of a dataset PID's record
PairOf(p) ==
    <<WithoutPrefix(HandleRecord(p).IS_PART_OF, DoiPrefix),
      HandleRecord(p).VERSION_NUMBER>>

\* the handle service requests of the i-th call, in order
RECURSIVE LookupsOf(_, _)
LookupsOf(log, i) ==
    IF log = <<>> THEN <<>>
    ELSE IF Head(log)[1] = i
         THEN <<<<Head(log)[2], Head(log)[3]>>>> \o LookupsOf(Tail(log), i)
         ELSE LookupsOf(Tail(log), i)

IsPrefix(s, t) == Len(s) <= Len(t) /\ SubSeq(t, 1, Len(s)) = s

\* the i-th input is a tracking ID linked to more than one / exactly one PID
IsFile(i) == i \in DOMAIN ids_or_paths /\ HandleOf(ids_or_paths[i]) = T1
IsAmbiguous(i) == IsFile(i) /\ Cardinality(links) > 1
IsDataset(i) == i \in DOMAIN ids_or_paths /\ HandleOf(ids_or_paths[i]) \in Pids
IsUnknown(i) == i \in DOMAIN ids_or_paths /\ HandleOf(ids_or_paths[i]) \in {U1, U2}

\* the i-th call has returned its pair / is the call that raised
HasReturned(i) == i <= Len(doi_versions)
HasRaised(i) == pc = "raised" /\ idx = i /\ i \in DOMAIN ids_or_paths

\* the requests of a call that goes through get_dataset_pid and selects p
ViaDatasetPid(p) ==
    << <<T1, "AGGREGATION_LEVEL">>, <<T1, "get_dataset_pid">>,
       <<p, "IS_PART_OF">>, <<p, "VERSION_NUMBER">> >>

Earliest(p) == p \in links /\ \A q \in links : pubdate[p] <= pubdate[q]
Latest(p) == p \in links /\ \A q \in links : pubdate[q] <= pubdate[p]

(***************************************************************************)
(* C1                                                                      *)
(***************************************************************************)
\* C1: a tracking ID linked to more than one dataset PID, resolved with no
\* strategy, gets no further than get_dataset_pid: once get_dataset_pid has
\* been called the call has raised MultipleDatasetMemberError, whose message
\* lists every linked PID exactly once as "{date} (PID: {pid})", in
\* descending order of publication date, and no pair is returned for it.
C1_AmbiguousWithoutStrategyFails ==
    \A i \in DOMAIN ids_or_paths :
        (IsAmbiguous(i) /\ multi_dataset_handling = "None") =>
            /\ ~HasReturned(i)
            /\ (idx = i => pc \in {"call", "agg", "pid", "raised"})
            /\ (idx = i /\ <<T1, "get_dataset_pid">> \in Range(LookupsOf(lookups, i)))
                  => HasRaised(i)
            /\ HasRaised(i) =>
                  /\ error.kind = "MultipleDatasetMemberError"
                  /\ LET listing == error.detail[2]
                     IN /\ Len(listing) = Cardinality(links)
                        /\ \A p \in links :
                              Cardinality({k \in DOMAIN listing :
                                  listing[k] = <<pubdate[p], " (PID: ", p, ")">>}) = 1
                        /\ \A k \in 1..(Len(listing) - 1) :
                              listing[k][1] >= listing[k + 1][1]

C1_Witness ==
    /\ HasRaised(1)
    /\ IsAmbiguous(1)
    /\ multi_dataset_handling = "None"
    /\ Cardinality(links) = 3
    /\ pubdate[P1] # pubdate[P3]

(***************************************************************************)
(* C2                                                                      *)
(***************************************************************************)
\* C2: a tracking ID linked to more than one dataset PID, resolved with
\* strategy FIRST (LATEST), does not fail; the PID selected is a linked PID
\* with the earliest (most recent) publication date; IS_PART_OF and
\* VERSION_NUMBER are looked up on that PID and the pair returned is that
\* PID's.
C2_StrategySelectsByDate ==
    \A i \in DOMAIN ids_or_paths :
        (IsAmbiguous(i) /\ multi_dataset_handling # "None") =>
            LET Extreme(p) == IF multi_dataset_handling = "FIRST"
                              THEN Earliest(p) ELSE Latest(p)
            IN /\ ~HasRaised(i)
               /\ (idx = i /\ pc \in {"doi", "version"}) => Extreme(pid)
               /\ HasReturned(i) =>
                     \E p \in links :
                        /\ Extreme(p)
                        /\ LookupsOf(lookups, i) = ViaDatasetPid(p)
                        /\ doi_versions[i] = PairOf(p)

C2_Witness ==
    /\ HasReturned(1)
    /\ IsAmbiguous(1)
    /\ multi_dataset_handling = "FIRST"
    /\ links = {P1, P2, P3}
    /\ pubdate[P1] > pubdate[P2]
    /\ pubdate[P3] > pubdate[P2]
    /\ doi_versions[1] = PairOf(P2)

(***************************************************************************)
(* C3                                                                      *)
(***************************************************************************)
\* C3: for an identifier whose AGGREGATION_LEVEL is DATASET, whatever the
\* strategy, the call never raises MultipleDatasetMemberError; its requests
\* are, in order, AGGREGATION_LEVEL, IS_PART_OF and VERSION_NUMBER, each once
\* and each on the identifier without its "hdl:" prefix; the pair returned is
\* that handle's DOI without "doi:" and its version.
C3_DatasetResolvesDirectly ==
    \A i \in DOMAIN ids_or_paths :
        IsDataset(i) =>
            LET h == HandleOf(ids_or_paths[i])
                direct == << <<h, "AGGREGATION_LEVEL">>, <<h, "IS_PART_OF">>,
                             <<h, "VERSION_NUMBER">> >>
            IN /\ IsPrefix(LookupsOf(lookups, i), direct)
               /\ HasRaised(i) => error.kind # "MultipleDatasetMemberError"
               /\ HasReturned(i) =>
                     /\ LookupsOf(lookups, i) = direct
                     /\ doi_versions[i] = PairOf(h)

C3_Witness ==
    /\ HasReturned(1)
    /\ ids_or_paths[1] = Hdl \o P1
    /\ doi_versions[1] = <<<<"1", "0", ".", "a">>, "20190903">>
    /\ multi_dataset_handling = "None"

(***************************************************************************)
(* C4                                                                      *)
(***************************************************************************)
\* C4: for an identifier whose AGGREGATION_LEVEL is neither FILE nor DATASET
\* the call makes the AGGREGATION_LEVEL request and no other, then has raised
\* an error whose message holds the raw value, and returns no pair.
C4_UnknownLevelFails ==
    \A i \in DOMAIN ids_or_paths :
        IsUnknown(i) =>
            LET h == HandleOf(ids_or_paths[i])
                raw == HandleRecord(h).AGGREGATION_LEVEL
            IN /\ ~HasReturned(i)
               /\ IsPrefix(LookupsOf(lookups, i), << <<h, "AGGREGATION_LEVEL">> >>)
               /\ (idx = i) => pc \in {"call", "agg", "raised"}
               /\ HasRaised(i) =>
                     /\ error.kind = "NotImplementedError"
                     /\ \E k \in DOMAIN error.detail : error.detail[k] = raw
                     /\ LookupsOf(lookups, i) = << <<h, "AGGREGATION_LEVEL">> >>

C4_Witness ==
    /\ HasRaised(2)
    /\ HandleOf(ids_or_paths[2]) = U2
    /\ error.detail[4] = "dataset"
    /\ Len(doi_versions) = 1

(***************************************************************************)
(* C5                                                                      *)
(***************************************************************************)
\* the positions of doi_versions holding a pair no earlier position holds,
\* pairs being equal when both their DOI and their version are
FirstOccurrences ==
    {i \in DOMAIN doi_versions :
        \A j \in 1..(i - 1) : \/ doi_versions[j][1] # doi_versions[i][1]
                              \/ doi_versions[j][2] # doi_versions[i][2]}

\* C5: get_citation is never called twice with the same pair, and when
\* get_citations returns, every input has been resolved, get_citation has
\* been called once for each distinct pair and for nothing else, and the list
\* returned holds these calls' citations, as many as there are distinct pairs.
C5_OneCitationPerDistinctPair ==
    /\ \A j, k \in DOMAIN produced : j # k => produced[j] # produced[k]
    /\ pc = "done" =>
          /\ Len(doi_versions) = Len(ids_or_paths)
          /\ Len(produced) = Cardinality(FirstOccurrences)
          /\ \A i \in DOMAIN doi_versions :
                \E k \in DOMAIN produced : produced[k] = doi_versions[i]
          /\ Len(returned) = 1
          /\ Len(returned[1]) = Cardinality(FirstOccurrences)
          /\ \A k \in DOMAIN produced : returned[1][k] = get_citation(produced[k])

C5_Witness ==
    /\ pc = "done"
    /\ Len(ids_or_paths) = 2
    /\ ids_or_paths[1] # ids_or_paths[2]
    /\ IsFile(1)
    /\ doi_versions[1] = doi_versions[2]
    /\ doi_versions[1] = PairOf(P2)
    /\ Len(returned[1]) = 1

(***************************************************************************)
(* C6                                                                      *)
(***************************************************************************)
C6_NothingPartial ==
    /\ error.kind # "none" => pc = "raised" /\ returned = <<>>
    /\ returned # <<>> => pc = "done" /\ error.kind = "none"
    /\ produced # <<>> => Len(doi_versions) = Len(ids_or_paths)
    /\ \A i \in DOMAIN ids_or_paths :
          HasRaised(i) =>
             /\ produced = <<>>
             /\ res = <<>>
             /\ Len(doi_versions) = i - 1
             /\ \A k \in DOMAIN lookups : lookups[k][1] <= i

\* C6: once a call of get_doi_and_version or of get_citation has raised,
\* get_citations does nothing more and returns no list; when an identifier
\* fails to resolve, no later identifier has been looked up and get_citation
\* has not been called; get_citation is called only when every identifier
\* is resolved.
C6_FailFast == []C6_NothingPartial /\ [][pc # "raised"]_vars

C6_Witness ==
    /\ HasRaised(1)
    /\ Len(ids_or_paths) = 2
    /\ HandleOf(ids_or_paths[1]) = M1
    /\ IsDataset(2)

C10_SingleLinkResolves ==
    \A i \in DOMAIN ids_or_paths :
        (IsFile(i) /\ Cardinality(links) = 1) =>
            LET p == CHOOSE q \in links : TRUE
            IN /\ ~HasRaised(i)
               /\ IsPrefix(LookupsOf(lookups, i), ViaDatasetPid(p))
               /\ HasReturned(i) =>
                     /\ LookupsOf(lookups, i) = ViaDatasetPid(p)
                     /\ doi_versions[i] = PairOf(p)

C10_Witness ==
    /\ HasReturned(1)
    /\ IsFile(1)
    /\ links = {P3}
    /\ multi_dataset_handling = "None"
    /\ doi_versions[1] = <<<<"1", "0", ".", "b">>, "20190903">>

(***************************************************************************)
(* C7 and C8                                                               *)
(***************************************************************************)
Title == <<"t", "i", "t", "l", "e">>
TitleFields == {k \in DOMAIN fields : fields[k].name = Title}

\* the record with the version text put at the end of the title field's
\* value and nothing else changed
Spliced ==
    Render([k \in DOMAIN fields |->
               IF fields[k].name = Title
               THEN [name |-> Title, value |-> fields[k].value \o VersionText(version)]
               ELSE fields[k]])

\* C7: for a record with one title field, whose value T has no brace and no
\* line break, get_bibtex_citation returns the record with that field reading
\* "title = {T. Version V.}" and every other character as it was.
C7_OnlyTitleFieldChanges ==
    (/\ pc = "bibdone"
     /\ Cardinality(TitleFields) = 1
     /\ \A k \in TitleFields : fields[k].value = Simple)
        => citation = <<Spliced>>

\* C8: for a record with one title field, whose value has nested braces or
\* spans lines, and no other field whose name ends in "title",
\* get_bibtex_citation puts the version text right before the brace that
\* closes the title field.
C8_NestedOrMultiLineTitle ==
    (/\ pc = "bibdone"
     /\ Cardinality(TitleFields) = 1
     /\ \A k \in DOMAIN fields :
           IF k \in TitleFields THEN fields[k].value \in {Nested, MultiLine}
           ELSE fields[k].name = <<"y", "e", "a", "r">>)
        => citation = <<Spliced>>

\* for a record whose only field is a title with no brace and no line break,
\* the version text goes to the end of the title
BibSimpleTitle ==
    (/\ pc = "bibdone"
     /\ Len(fields) = 1
     /\ fields[1] = [name |-> Title, value |-> Simple])
        => citation = <<Spliced>>

(***************************************************************************)
(* C14                                                                     *)
(***************************************************************************)
IsPath(i) == i \in DOMAIN ids_or_paths /\ PathExists(ids_or_paths[i])

\* C14: an input value that is the path of an existing file is resolved like
\* the other two kinds of input: its call does not raise before any request
\* to the handle service.
C14_PathIsResolved ==
    \A i \in DOMAIN ids_or_paths :
        IsPath(i) => ~(HasRaised(i) /\ LookupsOf(lookups, i) = <<>>)

(***************************************************************************)
(* C12                                                                     *)
(***************************************************************************)
\* the message tests/integration/test_citations_integration.py expects,
\* literal by literal
GuidanceInTest ==
    <<"One of your input values is a member of more than one dataset. ",
      "You can resolve this by passing a value for the ",
      Backquote, "multi_dataset_handling", Backquote, " argument. ",
      "In most cases, adding ",
      Backquote, "from cmipcite.tracking_id import MultiDatasetHandlingStrategy",
      Backquote, " ",
      "and then using ",
      Backquote, "multi_dataset_handling=MultiDatasetHandlingStrategy.LATEST",
      Backquote, " ",
      "is what you will want ",
      "(this will give you the reference to the last published dataset ",
      "that includes your ID).">>

\* C12: when citations.get ends with an exception it returns nothing; a
\* MultipleDatasetMemberError that left get_citations has become a
\* ValueError with the guidance message, any other exception leaves get
\* unchanged, and no ValueError leaves get when a strategy is supplied.
C12_GetTurnsAmbiguityIntoValueError ==
    /\ pc = "get_done" => error.kind = "none" /\ Len(returned) = 1
    /\ error.kind = "ValueError" =>
          pc = "get_raised" /\ multi_dataset_handling = "None"
    /\ pc = "get_raised" =>
          /\ returned = <<>>
          /\ IF exc.kind = "MultipleDatasetMemberError"
             THEN error.kind = "ValueError" /\ error.detail = GuidanceInTest
             ELSE error.kind = exc.kind /\ error.detail = exc.detail

C12_Witness ==
    /\ pc = "get_raised"
    /\ error.kind = "ValueError"
    /\ exc.kind = "MultipleDatasetMemberError"
    /\ Len(ids_or_paths) = 2
    /\ IsDataset(1)
    /\ IsAmbiguous(2)

(***************************************************************************)
(* C11                                                                     *)
(***************************************************************************)
\* C11: when the command has ended, its exit code is 0 if nothing was
\* raised; if something was raised the exit code is not 0, a message is on
\* the error output and nothing is written to the standard output or to the
\* file; and if what was raised is the ambiguity of a tracking ID resolved
\* without a strategy, the message shown is the guidance of citations.get.
C11_CliExitAndGuidance ==
    pc = "exited" =>
        /\ error.kind = "none" => process.exit_code = <<0>>
        /\ error.kind # "none" =>
              /\ process.exit_code # <<>>
              /\ process.exit_code # <<0>>
              /\ process.stderr # <<>>
              /\ process.stdout = <<>>
              /\ process.file = <<>>
        /\ error.kind = "MultipleDatasetMemberError" =>
              /\ process.stderr[1].kind # "MultipleDatasetMemberError"
              /\ process.stderr[1].detail = GuidanceInTest

\* when the command has ended after an exception, the exit code is 1 and
\* nothing is written
CliFailsCleanly ==
    (pc = "exited" /\ error.kind # "none") =>
        /\ process.exit_code = <<1>>
        /\ process.stdout = <<>>
        /\ process.file = <<>>

(***************************************************************************)
(* C13                                                                     *)
(***************************************************************************)
HasKey(key) == key \in DOMAIN data.attributes
CreatorsOf == data.attributes["creators"]

\* the authors part the claim gives for a creators list
AuthorsPart ==
    IF author_list_style = "short"
    THEN IF Len(CreatorsOf) = 1
         THEN <<CreatorsOf[1].name>>
         ELSE <<CreatorsOf[1].familyName, " et al.">>
    ELSE [i \in 1..(2 * Len(CreatorsOf) - 1) |->
             IF i % 2 = 1 THEN CreatorsOf[(i + 1) \div 2].name ELSE "; "]

\* the fields of the creators the authors part is made of
AuthorFieldsPresent ==
    IF author_list_style = "short"
    THEN IF Len(CreatorsOf) = 1
         THEN "name" \in DOMAIN CreatorsOf[1]
         ELSE Len(CreatorsOf) >= 2 => "familyName" \in DOMAIN CreatorsOf[1]
    ELSE \A i \in DOMAIN CreatorsOf : "name" \in DOMAIN CreatorsOf[i]

FirstCreatorAbsent == CreatorsOf = <<>>

ExpectedFieldAbsent ==
    \/ \E key \in AttributeKeys : ~HasKey(key)
    \/ data.attributes["titles"] = <<>>
    \/ ~AuthorFieldsPresent

TextOf(authors) ==
    authors
    \o <<" (", data.attributes["publicationYear"], "): ",
         data.attributes["titles"][1].title, ". ", "Version ">>
    \o version
    \o <<". ", data.attributes["publisher"], ". ", "https://doi.org/">>
    \o doi
    \o <<".">>

TextFails == pc = "raised" /\ citation = <<>> /\ error.kind # "none"
TextReturns(authors) ==
    pc = "textdone" /\ citation = <<TextOf(authors)>> /\ error.kind = "none"

\* C13: when get_text_citation has ended, it has failed and returned no
\* citation if the metadata service answered with an error status or an
\* expected field, a first creator included, is absent; otherwise it has
\* returned '{authors} ({year}): {title}. Version {version}. {publisher}.
\* https://doi.org/{doi}.' with authors the single creator's name (SHORT,
\* one creator), '{first familyName} et al.' (SHORT, two or more) or all
\* names in order joined by '; ' (LONG).
C13_TextCitation ==
    pc \in {"textdone", "raised"} =>
        IF \/ data.status # "ok"
           \/ ExpectedFieldAbsent
           \/ FirstCreatorAbsent
        THEN TextFails
        ELSE TextReturns(AuthorsPart)

\* C13, amended: as C13, but an empty creators list is a failure under
\* SHORT only; under LONG get_text_citation then returns the citation with
\* an empty authors part.
C13_TextCitationAmended ==
    pc \in {"textdone", "raised"} =>
        IF \/ data.status # "ok"
           \/ ExpectedFieldAbsent
           \/ FirstCreatorAbsent /\ author_list_style = "short"
        THEN TextFails
        ELSE IF FirstCreatorAbsent
             THEN TextReturns(<<>>)
             ELSE TextReturns(AuthorsPart)

C13_Witness ==
    /\ pc = "textdone"
    /\ author_list_style = "long"
    /\ HasKey("creators")
    /\ CreatorsOf = <<>>
    /\ citation # <<>>

\* the cases of the claim that do not meet an empty creators list
C13_WitnessShort ==
    /\ pc = "textdone"
    /\ author_list_style = "short"
    /\ Len(CreatorsOf) = 2
    /\ citation = <<TextOf(<<"Doe", " et al.">>)>>

=============================================================================
